---- MODULE Spec2Model ----
(***************************************************************************)
(* Model of the three command-line demos of the repository:                *)
(*   game-master/main.py          GameMaster, BaseAgent (tool-call loop)   *)
(*   travel-agent/main.py         TravelDesigner (retry, tool loop, handoff)*)
(*   career-mentor-agent/main.py  CareerMentor (keyword state machine)     *)
(*                                                                         *)
(* Text is modelled as a sequence of fragments (TLA+ strings): a marker, a *)
(* word, a number, a blank or a line break is one fragment.  Substring     *)
(* tests, split, strip, lower/upper and int() are computed on fragments.   *)
(***************************************************************************)
EXTENDS Integers, Sequences, FiniteSets, TLC

VARIABLES
    prog,        \* which demo this run executes: "game", "travel", "career", "parser"
    gm,          \* GameMaster: the GameState fields, current_agent, agent_name
    pc,          \* position of the running demo's control flow
    lastResp,    \* the text passed to process_response in this loop iteration
    lastPre,     \* gm at the moment of that call
    lastRet,     \* what that call returned (display text), or Raised
    messages,    \* the transcript handed to the completion client
    calls,       \* the tool calls of the response being processed
    idx,         \* position of the tool call being processed in calls
    outputs,     \* travel: tool_outputs collected by process_tool_calls
    caller,      \* game: the agent whose generate_response runs
    turns,       \* game: player inputs accepted so far
    used,        \* tool calls requested by the client so far in this run
    nCompl,      \* completion calls made by the running tool-call loop (game) or by
                 \* the call_openai invocation in progress or just failed (travel)
    nInvoked,    \* tool handlers invoked by the running tool-call loop
    content,     \* message.content of the last response without tool calls
    finalText,   \* what the tool-call loop yielded as the final answer
    shown,       \* game: the agent response displayed in this loop iteration
    td,          \* TravelDesigner: current_agent, user_preferences, full_plan
    attempt,     \* travel: the loop variable of call_openai
    slept,       \* travel: the delays call_openai has slept in this invocation
    err,         \* travel: the text of the exception last raised by the client
    returned,    \* travel: what process_request returned
    cm,          \* CareerMentor: current_agent, context, awaiting_selection
    cmPre,       \* career: cm at the moment of the last run(user_input)
    cmInput,     \* career: the user_input of the last run
    cmReply      \* career: what the last run returned

loopVars == <<messages, calls, idx, outputs, caller, turns, used, nCompl, nInvoked,
              content, finalText, shown>>

travelVars == <<td, attempt, slept, err, returned>>

careerVars == <<cm, cmPre, cmInput, cmReply>>

vars == <<prog, gm, pc, lastResp, lastPre, lastRet, messages, calls, idx, outputs,
          caller, turns, used, nCompl, nInvoked, content, finalText, shown,
          td, attempt, slept, err, returned, cm, cmPre, cmInput, cmReply>>

(***************************************************************************)
(* Bounds                                                                  *)
(***************************************************************************)
MaxTextLen == 3      \* longest enumerated response text, in fragments
MaxTurns == 2        \* player inputs accepted in one game session
MaxToolCalls == 2    \* tool calls the completion client requests in one run

(***************************************************************************)
(* Strings as fragment sequences                                           *)
(***************************************************************************)
NoneTok == "<None>"
None == <<NoneTok>>            \* Python's None (no text contains NoneTok)
Raised == <<"<raised>">>       \* marks a call that ended in an exception

SP == " "
NL == "\n"
Whitespace == {SP, NL}

\* str.__contains__ for a one-fragment needle
Has(s, m) ==
    \E i \in 1..Len(s) : s[i] = m

\* str.__contains__ for a needle of several fragments
Contains(s, sub) ==
    \E i \in 0..(Len(s) - Len(sub)) : SubSeq(s, i + 1, i + Len(sub)) = sub

\* index of the first occurrence of fragment m in s (0 when absent)
FirstAt(s, m) ==
    IF Has(s, m) THEN CHOOSE i \in 1..Len(s) : s[i] = m /\ \A j \in 1..(i - 1) : s[j] # m
    ELSE 0

\* index of the first occurrence of m after position i (Len(s)+1 when absent)
NextAt(s, m, i) ==
    IF \E j \in (i + 1)..Len(s) : s[j] = m
    THEN CHOOSE j \in (i + 1)..Len(s) : s[j] = m /\ \A k \in (i + 1)..(j - 1) : s[k] # m
    ELSE Len(s) + 1

\* s.split(m)[0], for s containing m
SplitHead(s, m) ==
    SubSeq(s, 1, FirstAt(s, m) - 1)

\* s.split(m)[1], for s containing m: the text between the first and the second m
SplitSecond(s, m) ==
    SubSeq(s, FirstAt(s, m) + 1, NextAt(s, m, FirstAt(s, m)) - 1)

\* str.strip(): drops leading and trailing blanks and line breaks
Strip(s) ==
    IF \A i \in 1..Len(s) : s[i] \in Whitespace THEN <<>>
    ELSE LET lo == CHOOSE i \in 1..Len(s) :
                       s[i] \notin Whitespace /\ \A j \in 1..(i - 1) : s[j] \in Whitespace
             hi == CHOOSE i \in 1..Len(s) :
                       s[i] \notin Whitespace /\ \A j \in (i + 1)..Len(s) : s[j] \in Whitespace
         IN  SubSeq(s, lo, hi)

\* the fragments that spell an integer literal, and their values
NumTokens == {"30", "150", "-20", "-150"}
NumValue(t) ==
    CASE t = "30" -> 30
      [] t = "150" -> 150
      [] t = "-20" -> 0 - 20
      [] t = "-150" -> 0 - 150
      [] OTHER -> 0

\* int(s) succeeds exactly when s is one integer literal
IsInt(s) == Len(s) = 1 /\ s[1] \in NumTokens
ToInt(s) == NumValue(s[1])

\* all sequences over S of length at most n
RECURSIVE SeqsUpTo(_, _)
SeqsUpTo(S, n) ==
    IF n = 0 THEN {<<>>}
    ELSE LET shorter == SeqsUpTo(S, n - 1)
         IN  shorter \cup {Append(s, x) : s \in {t \in shorter : Len(t) = n - 1}, x \in S}

(***************************************************************************)
(* game-master: GameState, GameMaster.__init__                             *)
(***************************************************************************)
HANDOFF_MONSTER == "HANDOFF_MONSTER:"
HANDOFF_ITEM == "HANDOFF_ITEM:"
HANDOFF_NARRATOR == "HANDOFF_NARRATOR"
UPDATE_LOCATION == "UPDATE_LOCATION:"
DAMAGE_PLAYER == "DAMAGE_PLAYER:"
HEAL_PLAYER == "HEAL_PLAYER:"
ADD_ITEM == "ADD_ITEM:"

GameMarkers ==
    {HANDOFF_MONSTER, HANDOFF_ITEM, HANDOFF_NARRATOR, UPDATE_LOCATION,
     DAMAGE_PLAYER, HEAL_PLAYER, ADD_ITEM}

InitialHealth == 100

GameMasterInit ==
    [ player_health    |-> InitialHealth,
      player_inventory |-> <<>>,
      current_location |-> <<"Forest Entrance">>,
      game_over        |-> FALSE,
      combat_active    |-> FALSE,
      monster          |-> None,
      item_discovered  |-> None,
      last_action      |-> <<>>,
      current_agent    |-> "narrator",
      agent_name       |-> "Narrator" ]

(***************************************************************************)
(* GameMaster.process_response: the result is the new GameMaster, the      *)
(* returned display text, and whether the call raised (int() of a payload  *)
(* that is no integer literal).                                            *)
(***************************************************************************)
Outcome(g, text, exc) == [gm |-> g, ret |-> text, raised |-> exc]

HandoffMonster(response, g) ==
    Outcome([g EXCEPT !.monster = Strip(SplitSecond(response, HANDOFF_MONSTER)),
                      !.combat_active = TRUE,
                      !.current_agent = "monster_agent",
                      !.agent_name = "Monster"],
            Strip(SplitHead(response, HANDOFF_MONSTER)), FALSE)

\* HandoffItem that stores the payload without trimming it
HandoffItemUntrimmed(response, g) ==
    Outcome([g EXCEPT !.item_discovered = SplitSecond(response, HANDOFF_ITEM),
                      !.current_agent = "item_agent",
                      !.agent_name = "Item"],
            Strip(SplitHead(response, HANDOFF_ITEM)), FALSE)

HandoffItem(response, g) ==
    Outcome([g EXCEPT !.item_discovered = Strip(SplitSecond(response, HANDOFF_ITEM)),
                      !.current_agent = "item_agent",
                      !.agent_name = "Item"],
            Strip(SplitHead(response, HANDOFF_ITEM)), FALSE)

\* HandoffNarrator that hands control back without clearing the combat state
HandoffNarratorKeepsCombat(response, g) ==
    Outcome([g EXCEPT !.item_discovered = None,
                      !.current_agent = "narrator",
                      !.agent_name = "Narrator"],
            Strip(SplitHead(response, HANDOFF_NARRATOR)), FALSE)

HandoffNarrator(response, g) ==
    Outcome([g EXCEPT !.combat_active = FALSE,
                      !.monster = None,
                      !.item_discovered = None,
                      !.current_agent = "narrator",
                      !.agent_name = "Narrator"],
            Strip(SplitHead(response, HANDOFF_NARRATOR)), FALSE)

UpdateLocation(response, g) ==
    Outcome([g EXCEPT !.current_location = Strip(SplitSecond(response, UPDATE_LOCATION))],
            Strip(SplitHead(response, UPDATE_LOCATION)), FALSE)

\* DamagePlayer that subtracts without the floor at zero
DamagePlayerUnclamped(response, g) ==
    LET payload == Strip(SplitSecond(response, DAMAGE_PLAYER))
    IN  IF ~IsInt(payload) THEN Outcome(g, Raised, TRUE)
        ELSE Outcome([g EXCEPT !.player_health = g.player_health - ToInt(payload)],
                     Strip(SplitHead(response, DAMAGE_PLAYER)), FALSE)

\* DamagePlayer with the floor test written "< 0": health 0 is not terminal
DamagePlayerStrictFloor(response, g) ==
    LET payload == Strip(SplitSecond(response, DAMAGE_PLAYER))
        health == g.player_health - ToInt(payload)
    IN  IF ~IsInt(payload) THEN Outcome(g, Raised, TRUE)
        ELSE IF health < 0
        THEN Outcome([g EXCEPT !.player_health = 0, !.game_over = TRUE],
                     Strip(SplitHead(response, DAMAGE_PLAYER)), FALSE)
        ELSE Outcome([g EXCEPT !.player_health = health],
                     Strip(SplitHead(response, DAMAGE_PLAYER)), FALSE)

DamagePlayer(response, g) ==
    LET payload == Strip(SplitSecond(response, DAMAGE_PLAYER))
        health == g.player_health - ToInt(payload)
    IN  IF ~IsInt(payload) THEN Outcome(g, Raised, TRUE)
        ELSE IF health <= 0
        THEN Outcome([g EXCEPT !.player_health = 0, !.game_over = TRUE],
                     Strip(SplitHead(response, DAMAGE_PLAYER)), FALSE)
        ELSE Outcome([g EXCEPT !.player_health = health],
                     Strip(SplitHead(response, DAMAGE_PLAYER)), FALSE)

HealPlayer(response, g) ==
    LET payload == Strip(SplitSecond(response, HEAL_PLAYER))
    IN  IF ~IsInt(payload) THEN Outcome(g, Raised, TRUE)
        ELSE Outcome([g EXCEPT !.player_health = g.player_health + ToInt(payload)],
                     Strip(SplitHead(response, HEAL_PLAYER)), FALSE)

AddItem(response, g) ==
    Outcome([g EXCEPT !.player_inventory =
                          Append(g.player_inventory, Strip(SplitSecond(response, ADD_ITEM)))],
            Strip(SplitHead(response, ADD_ITEM)), FALSE)

\* PassThrough that trims the text like the marker branches do
PassThroughTrimmed(response, g) ==
    Outcome(g, Strip(response), FALSE)

\* the text with no marker, as process_response returns it
PassThrough(response, g) ==
    Outcome(g, response, FALSE)

ProcessResponse(response, g) ==
    IF Has(response, HANDOFF_MONSTER) THEN HandoffMonster(response, g)
    ELSE IF Has(response, HANDOFF_ITEM) THEN HandoffItem(response, g)
    ELSE IF Has(response, HANDOFF_NARRATOR) THEN HandoffNarrator(response, g)
    ELSE IF Has(response, UPDATE_LOCATION) THEN UpdateLocation(response, g)
    ELSE IF Has(response, DAMAGE_PLAYER) THEN DamagePlayer(response, g)
    ELSE IF Has(response, HEAL_PLAYER) THEN HealPlayer(response, g)
    ELSE IF Has(response, ADD_ITEM) THEN AddItem(response, g)
    ELSE PassThrough(response, g)

(***************************************************************************)
(* The transcript and the completion client (game-master and travel-agent) *)
(***************************************************************************)
SystemMsg(agent) ==
    [role |-> "system", content |-> <<"instructions", agent>>,
     tool_calls |-> <<>>, tool_call_id |-> 0, name |-> ""]

UserMsg(text) ==
    [role |-> "user", content |-> text,
     tool_calls |-> <<>>, tool_call_id |-> 0, name |-> ""]

\* the assistant message that records a response's tool-call requests
AssistantCallsMsg(tcs) ==
    [role |-> "assistant", content |-> None,
     tool_calls |-> tcs, tool_call_id |-> 0, name |-> ""]

AssistantMsg(text) ==
    [role |-> "assistant", content |-> text,
     tool_calls |-> <<>>, tool_call_id |-> 0, name |-> ""]

\* ToolMsg that does not carry the id of the call it answers
ToolMsgNoId(tc, result) ==
    [role |-> "tool", content |-> result,
     tool_calls |-> <<>>, tool_call_id |-> 0, name |-> tc.name]

ToolMsg(tc, result) ==
    [role |-> "tool", content |-> result,
     tool_calls |-> <<>>, tool_call_id |-> tc.id, name |-> tc.name]

\* tool_call.function.arguments: text that decodes to arguments the handler runs
\* on, text that decodes to a value the handler's call fails on (no JSON object,
\* or sides = 0 for roll_dice), text that json.loads rejects
ArgKinds == {"usable", "unusable", "not_json"}

\* what the completion client may request: a batch of tool calls with fresh ids
Batches(kinds, room) ==
    {b \in SeqsUpTo(kinds, room) : Len(b) > 0}

WithIds(batch, first) ==
    [i \in 1..Len(batch) |->
        [id |-> first + i, name |-> batch[i].name, args |-> batch[i].args]]

LoopIdle ==
    /\ messages = <<>>
    /\ calls = <<>>
    /\ idx = 0
    /\ outputs = <<>>
    /\ caller = "none"
    /\ turns = 0
    /\ used = 0
    /\ nCompl = 0
    /\ nInvoked = 0
    /\ content = None
    /\ finalText = None
    /\ shown = None

TravelIdle ==
    /\ td = [current_agent |-> "Destination Specialist",
             user_preferences |-> None,
             full_plan |-> <<>>]
    /\ attempt = 0
    /\ slept = <<>>
    /\ err = None
    /\ returned = None

CareerMentorInit ==
    [ current_agent      |-> "career",
      career             |-> None,
      recommendations    |-> <<>>,
      awaiting_selection |-> FALSE ]

CareerIdle ==
    /\ cm = CareerMentorInit
    /\ cmPre = cm
    /\ cmInput = None
    /\ cmReply = [kind |-> "none", career |-> None, list |-> <<>>]

(***************************************************************************)
(* game-master session: GameMaster.start_game, BaseAgent.generate_response *)
(* and BaseAgent._process_tool_calls                                       *)
(***************************************************************************)
\* GameTools with the Item agent given the dice tool
GameToolsItemRolls(agent) ==
    CASE agent = "narrator" -> {"roll_dice", "generate_event"}
      [] OTHER -> {"roll_dice"}

\* the tools each agent offers to the completion client
GameTools(agent) ==
    CASE agent = "narrator" -> {"roll_dice", "generate_event"}
      [] agent = "monster_agent" -> {"roll_dice"}
      [] OTHER -> {}

\* the tool calls a response may carry (cast_spell is no tool of the game)
GameCallKinds ==
    { [name |-> "roll_dice", args |-> "usable"],
      [name |-> "roll_dice", args |-> "unusable"],
      [name |-> "roll_dice", args |-> "not_json"],
      [name |-> "generate_event", args |-> "usable"],
      [name |-> "cast_spell", args |-> "usable"] }

\* final answers of the completion client in a session
GameReplies ==
    { <<"walk">>,
      <<"walk", NL>>,
      <<"walk", NL, HANDOFF_MONSTER, SP, "Orc">>,
      <<"look", SP, HANDOFF_ITEM, SP, "Ancient", SP, "Key">>,
      <<HANDOFF_ITEM, SP, "Key", NL, "It", SP, "glows">>,
      <<"done", NL, HANDOFF_NARRATOR>>,
      <<DAMAGE_PLAYER, SP, "30">>,
      <<"hit", SP, DAMAGE_PLAYER, SP, "150">>,
      <<DAMAGE_PLAYER, SP, "lots">>,
      <<HEAL_PLAYER, SP, "30">>,
      <<HEAL_PLAYER, SP, "-150">>,
      <<ADD_ITEM, SP, "Key">>,
      <<ADD_ITEM, SP, "Key", NL, DAMAGE_PLAYER, SP, "30">>,
      <<UPDATE_LOCATION, SP, "Cave">> }

\* lines the player types
GameInputs == { <<"attack">>, <<SP, "Quit">>, <<"quit">> }

LowerTok(t) ==
    CASE t = "Quit" -> "quit"
      [] t = "Data" -> "data"
      [] t = "DATA" -> "data"
      [] t = "Scientist" -> "scientist"
      [] t = "Analy" -> "analy"
      [] t = "ANALY" -> "analy"
      [] t = "ST" -> "st"
      [] t = "UX" -> "ux"
      [] t = "Design" -> "design"
      [] t = "Product" -> "product"
      [] t = "Cyber" -> "cyber"
      [] t = "Security" -> "security"
      [] t = "Engineer" -> "engineer"
      [] t = "Web" -> "web"
      [] t = "Developer" -> "developer"
      [] t = "Front" -> "front"
      [] t = "Back" -> "back"
      [] t = "Software" -> "software"
      [] t = "Full" -> "full"
      [] t = "Stack" -> "stack"
      [] t = "Exit" -> "exit"
      [] t = "New" -> "new"
      [] t = "JOB" -> "job"
      [] t = "Rate" -> "rate"
      [] t = "Credit" -> "credit"
      [] OTHER -> t

\* str.lower()
Lower(s) == [i \in 1..Len(s) |-> LowerTok(s[i])]

\* BaseAgent.generate_response: a fresh transcript of the system message and the
\* state summary with the player's input
GenerateResponse(agent, player_input) ==
    <<SystemMsg(agent), UserMsg(<<"state_info", agent, "Player:">> \o player_input)>>

GameInit ==
    /\ prog = "game"
    /\ gm = GameMasterInit
    /\ pc = "start"
    /\ lastResp = None
    /\ lastPre = gm
    /\ lastRet = None
    /\ LoopIdle
    /\ TravelIdle
    /\ CareerIdle

\* start_game: the opening narration is asked of the narrator
GameBegin ==
    /\ prog = "game" /\ pc = "start"
    /\ caller' = "narrator"
    /\ messages' = GenerateResponse("narrator", <<"Begin", SP, "the", SP, "adventure">>)
    /\ nCompl' = 0 /\ nInvoked' = 0
    /\ pc' = "request"
    /\ UNCHANGED <<travelVars, careerVars, prog, gm, lastResp, lastPre, lastRet, calls, idx, outputs, turns, used,
                   content, finalText, shown>>

\* a loop that returns the content trimmed
LoopReturnTrimmed(text) == Strip(text)

\* _process_tool_calls: "return message.content"
LoopReturn(text) == text

\* _process_tool_calls: the response has no tool calls and its content is returned
GameResponseText ==
    /\ prog = "game" /\ pc = "request"
    /\ \E text \in GameReplies :
          /\ content' = text
          /\ finalText' = LoopReturn(text)
    /\ nCompl' = nCompl + 1
    /\ pc' = "answered"
    /\ UNCHANGED <<travelVars, careerVars, prog, gm, lastResp, lastPre, lastRet, messages, calls, idx, outputs,
                   caller, turns, used, nInvoked, shown>>

\* _process_tool_calls: the response carries tool calls; the assistant message
\* recording them is appended
GameResponseTools ==
    /\ prog = "game" /\ pc = "request"
    /\ GameTools(caller) # {}
    /\ used < MaxToolCalls
    /\ \E batch \in Batches(GameCallKinds, MaxToolCalls - used) :
          /\ calls' = WithIds(batch, used)
          /\ used' = used + Len(batch)
    /\ messages' = Append(messages, AssistantCallsMsg(calls'))
    /\ idx' = 1
    /\ nCompl' = nCompl + 1
    /\ pc' = "dispatch"
    /\ UNCHANGED <<travelVars, careerVars, prog, gm, lastResp, lastPre, lastRet, outputs, caller, turns,
                   nInvoked, content, finalText, shown>>

\* client.chat.completions.create raises: nothing in the game catches it
GameResponseError ==
    /\ prog = "game" /\ pc = "request"
    /\ nCompl' = nCompl + 1
    /\ pc' = "crashed"
    /\ UNCHANGED <<travelVars, careerVars, prog, gm, lastResp, lastPre, lastRet, messages, calls, idx, outputs,
                   caller, turns, used, nInvoked, content, finalText, shown>>

\* the result text of one dispatched game tool call
GameToolResult(tc) ==
    CASE tc.name = "roll_dice" -> <<"Dice rolls">>
      [] tc.name = "generate_event" -> <<"event">>
      [] OTHER -> <<"Error: Unknown function", tc.name>>

\* a dispatch that raises on a name it does not know
GameToolRaisesOnUnknown(tc) ==
    \/ tc.args = "not_json"
    \/ tc.args = "unusable"
    \/ tc.name \notin {"roll_dice", "generate_event"}

\* whether processing the call raises: json.loads on undecodable arguments, or
\* the handler called on arguments it cannot use
GameToolRaises(tc) ==
    \/ tc.args = "not_json"
    \/ tc.args = "unusable" /\ tc.name \in {"roll_dice", "generate_event"}

\* _process_tool_calls: one iteration of the for loop over message.tool_calls
GameDispatch ==
    /\ prog = "game" /\ pc = "dispatch"
    /\ LET tc == calls[idx]
       IN  IF GameToolRaises(tc)
           THEN /\ pc' = "crashed"
                /\ nInvoked' = IF tc.args = "not_json" THEN nInvoked ELSE nInvoked + 1
                /\ UNCHANGED <<messages, idx>>
           ELSE /\ messages' = Append(messages, ToolMsg(tc, GameToolResult(tc)))
                /\ nInvoked' = IF tc.name \in {"roll_dice", "generate_event"}
                               THEN nInvoked + 1 ELSE nInvoked
                /\ idx' = idx + 1
                /\ pc' = IF idx = Len(calls) THEN "request" ELSE "dispatch"
    /\ UNCHANGED <<travelVars, careerVars, prog, gm, lastResp, lastPre, lastRet, calls, outputs, caller, turns,
                   used, nCompl, content, finalText, shown>>

\* start_game: the opening narration is displayed as it came
GameShowOpening ==
    /\ prog = "game" /\ pc = "answered" /\ turns = 0
    /\ shown' = finalText
    /\ pc' = IF gm.game_over THEN "ended" ELSE "input"
    /\ UNCHANGED <<travelVars, careerVars, prog, gm, lastResp, lastPre, lastRet, messages, calls, idx, outputs,
                   caller, turns, used, nCompl, nInvoked, content, finalText>>

\* a loop that ends on the game_over flag only
DefeatedByFlagOnly(g) == g.game_over

\* start_game: the defeat check after the display, and the while condition
Defeated(g) == g.player_health <= 0 \/ g.game_over

\* start_game: process_response on the agent's answer, display, defeat check
GameApplyResponse ==
    /\ prog = "game" /\ pc = "answered" /\ turns > 0
    /\ LET out == ProcessResponse(finalText, gm)
       IN  /\ gm' = out.gm
           /\ lastResp' = finalText
           /\ lastPre' = gm
           /\ lastRet' = out.ret
           /\ shown' = IF out.raised THEN shown ELSE out.ret
           /\ pc' = IF out.raised THEN "crashed"
                    ELSE IF Defeated(out.gm) THEN "ended"
                    ELSE "input"
    /\ UNCHANGED <<travelVars, careerVars, prog, messages, calls, idx, outputs, caller, turns, used, nCompl,
                   nInvoked, content, finalText>>

\* start_game: a line is read; "quit" ends the session, anything else is handed
\* to the current agent
GameInput ==
    /\ prog = "game" /\ pc = "input"
    /\ \E line \in GameInputs :
          LET user_input == Strip(line)
          IN  IF Lower(user_input) = <<"quit">>
              THEN /\ pc' = "ended"
                   /\ UNCHANGED <<gm, messages, caller, turns, nCompl, nInvoked,
                                  lastResp, lastPre, lastRet, content, finalText, shown>>
              ELSE /\ turns < MaxTurns
                   /\ gm' = [gm EXCEPT !.last_action = user_input]
                   /\ caller' = gm.current_agent
                   /\ messages' = GenerateResponse(gm.current_agent, user_input)
                   /\ nCompl' = 0 /\ nInvoked' = 0
                   /\ turns' = turns + 1
                   /\ lastResp' = None /\ lastPre' = gm' /\ lastRet' = None
                   /\ content' = None /\ finalText' = None /\ shown' = None
                   /\ pc' = "request"
    /\ UNCHANGED <<travelVars, careerVars, prog, calls, idx, outputs, used>>

GameNext ==
    \/ GameBegin
    \/ GameResponseText
    \/ GameResponseTools
    \/ GameResponseError
    \/ GameDispatch
    \/ GameShowOpening
    \/ GameApplyResponse
    \/ GameInput

SpecGame == GameInit /\ [][GameNext]_vars

(***************************************************************************)
(* travel-agent: TravelDesigner                                            *)
(***************************************************************************)
max_retries == 5
retry_delay == 30

DESTINATION == "Destination:"

TravelAgents == <<"Destination Specialist", "Booking Specialist", "Exploration Specialist">>

\* create_agent(..., tools=[] / all_tools): whether the agent has tools
TravelHasTools(agent) == agent # "Destination Specialist"

UpperTok(t) ==
    CASE t = "Bookings" -> "BOOKINGS"
      [] t = "bookings" -> "BOOKINGS"
      [] t = "Complete" -> "COMPLETE"
      [] t = "complete" -> "COMPLETE"
      [] OTHER -> t

\* a comparison that leaves the text in the case it came in
UpperAsIs(s) == s

\* str.upper()
Upper(s) == [i \in 1..Len(s) |-> UpperTok(s[i])]

\* the texts of the exceptions the completion client raises
ErrTexts ==
    { <<"Rate", SP, "limit">>,
      <<"402", SP, "Credit", "s">>,
      <<"401", SP, "Unauthorized">> }

\* final answers of the completion client (content may be None)
TravelReplies ==
    { <<DESTINATION, SP, "Paris", NL, "Enjoy">>,
      <<"Paris">>,
      <<"Visit", SP, "Paris", SP, "in", SP, "2026">>,
      <<"Flights", SP, "booked", NL, "Bookings", SP, "complete">>,
      None }

\* the tool calls a response may carry (book_taxi is no tool of the demo)
TravelCallKinds ==
    { [name |-> "get_flights", args |-> "usable"],
      [name |-> "get_attractions", args |-> "unusable"],
      [name |-> "suggest_hotels", args |-> "not_json"],
      [name |-> "book_taxi", args |-> "usable"] }

RECURSIVE Pow2(_)
Pow2(n) == IF n = 0 THEN 1 ELSE 2 * Pow2(n - 1)

\* handle_rate_limit: the test on the error text
IsRateLimit(error) ==
    \/ Has(Lower(error), "quota")
    \/ Has(Lower(error), "rate")
    \/ Has(Lower(error), "credit")

\* a backoff that grows by retry_delay with every attempt
BackoffDelayLinear(n) == retry_delay * (n + 1)

\* handle_rate_limit: the delay slept before the retry
BackoffDelay(n) == retry_delay * Pow2(n)

\* an except clause that handles the credit errors only and lets the others go
ErrorStringCreditsOnly(e) ==
    IF Has(e, "402") \/ Has(Lower(e), "credit")
    THEN <<"Error: Insufficient credits on OpenRouter">>
    ELSE Raised

\* process_request: the except clause's return value for exception text e
ErrorString(e) ==
    IF Has(e, "402") \/ Has(Lower(e), "credit")
    THEN <<"Error: Insufficient credits on OpenRouter">>
    ELSE <<"Error:">> \o e

\* handoff_to_agent that starts the next agent on a fresh transcript
HandoffToAgentFresh(msgs, next_agent, handoff_message) ==
    <<SystemMsg(next_agent), UserMsg(handoff_message)>>

\* handoff_to_agent that appends the next agent's system message
HandoffToAgentAppending(msgs, next_agent, handoff_message) ==
    Append(Append(msgs, SystemMsg(next_agent)), UserMsg(handoff_message))

\* handoff_to_agent: the system message is replaced, the handoff message appended
HandoffToAgent(msgs, next_agent, handoff_message) ==
    Append([msgs EXCEPT ![1] = SystemMsg(next_agent)], UserMsg(handoff_message))

\* fragments that contain a digit
DigitFrags == {"2026", "402", "401", "30", "150", "-20", "-150"}

\* the text up to the first line break
FirstLine(s) == IF Has(s, NL) THEN SubSeq(s, 1, FirstAt(s, NL) - 1) ELSE s

\* the text after the first line break
RestLines(s) == IF Has(s, NL) THEN SubSeq(s, FirstAt(s, NL) + 1, Len(s)) ELSE <<>>

\* the first line that is not blank, stripped (<<>> when every line is blank)
RECURSIVE FirstNonBlankLine(_)
FirstNonBlankLine(s) ==
    IF Strip(s) = <<>> THEN <<>>
    ELSE IF Strip(FirstLine(s)) # <<>> THEN Strip(FirstLine(s))
    ELSE FirstNonBlankLine(RestLines(s))

\* len(line.split()): the runs of fragments that are not blanks
WordCount(line) ==
    Cardinality({i \in 1..Len(line) :
                    line[i] \notin Whitespace /\ (i = 1 \/ line[i - 1] \in Whitespace)})

\* an extract_destination that honours the marker only
ExtractDestinationMarkerOnly(message) ==
    IF message = None \/ message = <<>> THEN None
    ELSE IF Has(message, DESTINATION)
    THEN Strip(FirstLine(SplitSecond(message, DESTINATION)))
    ELSE None

\* extract_destination
ExtractDestination(message) ==
    IF message = None \/ message = <<>> THEN None
    ELSE IF Has(message, DESTINATION)
    THEN Strip(FirstLine(SplitSecond(message, DESTINATION)))
    ELSE LET first == FirstNonBlankLine(message)
         IN  IF first # <<>> /\ WordCount(first) <= 3
                /\ ~\E i \in 1..Len(first) : first[i] \in DigitFrags
             THEN first
             ELSE message

\* format_final_plan: the report text; <<"TypeError">> when a response is None
\* (str + None raises, and process_request's except clause catches it)
RECURSIVE PlanBodyNewestFirst(_)
\* a report that lists the latest fragment first
PlanBodyNewestFirst(parts) ==
    IF parts = <<>> THEN <<>>
    ELSE PlanBodyNewestFirst(Tail(parts))
             \o <<"===", Head(parts).agent, "===", NL>> \o Head(parts).response \o <<NL, NL>>

RECURSIVE PlanBody(_)
PlanBody(parts) ==
    IF parts = <<>> THEN <<>>
    ELSE <<"===", Head(parts).agent, "===", NL>> \o Head(parts).response \o <<NL, NL>>
             \o PlanBody(Tail(parts))

PlanRaises(full_plan) == \E i \in 1..Len(full_plan) : full_plan[i].response = None

FormatFinalPlan(full_plan) ==
    IF full_plan = <<>> THEN <<"No travel plan generated.">>
    ELSE IF PlanRaises(full_plan) THEN ErrorString(<<"TypeError">>)
    ELSE <<"Your Personalized Travel Plan", NL, NL>> \o PlanBody(full_plan)

\* the content of the tool message for one travel tool call
TravelToolOutput(tc) ==
    IF tc.name \notin {"get_flights", "suggest_hotels", "get_attractions", "get_restaurants"}
    THEN <<"Tool not available">>
    ELSE IF tc.args = "unusable" THEN <<"Tool error">>
    ELSE CASE tc.name = "get_flights" -> <<"flights">>
           [] tc.name = "suggest_hotels" -> <<"hotels">>
           [] tc.name = "get_attractions" -> <<"attractions">>
           [] OTHER -> <<"restaurants">>

TravelInit ==
    /\ prog = "travel"
    /\ gm = GameMasterInit
    /\ pc = "start"
    /\ lastResp = None
    /\ lastPre = gm
    /\ lastRet = None
    /\ LoopIdle
    /\ TravelIdle
    /\ CareerIdle

gameVars == <<gm, lastResp, lastPre, lastRet, caller, turns, shown, cm, cmPre, cmInput, cmReply>>

\* start_conversation: the transcript is the system prompt and the user input
StartConversation ==
    /\ prog = "travel" /\ pc = "start"
    /\ messages' = <<SystemMsg(td.current_agent), UserMsg(<<"beach">>)>>
    /\ attempt' = 0 /\ slept' = <<>> /\ err' = None
    /\ pc' = "call"
    /\ UNCHANGED <<prog, gameVars, nCompl, calls, idx, outputs, used, nInvoked, content, finalText,
                   td, returned>>

\* a call_openai that sleeps on the last attempt's error too and leaves its loop
MayRetryThroughLast(n, e) == IsRateLimit(e)

\* a call_openai that gives up one attempt early
MayRetryOneFewer(n, e) == n < max_retries - 2 /\ IsRateLimit(e)

\* a call_openai in which the classification gates the delay only
MayRetryAnyError(n, e) == n < max_retries - 1

\* call_openai: whether the exception e of attempt n is slept on and retried
MayRetry(n, e) == n < max_retries - 1 /\ IsRateLimit(e)

\* call_openai: the completion call raises a rate-limit error before the last
\* attempt; handle_rate_limit sleeps and the loop continues
CallRetry ==
    /\ prog = "travel" /\ pc = "call"
    /\ \E e \in ErrTexts :
          /\ MayRetry(attempt, e)
          /\ err' = e
    /\ nCompl' = nCompl + 1
    /\ slept' = Append(slept, BackoffDelay(attempt))
    /\ attempt' = attempt + 1
    /\ IF attempt + 1 < max_retries
       THEN pc' = "call" /\ returned' = returned
       ELSE pc' = "returned" /\ returned' = ErrorString(<<"Max retries exceeded for API call">>)
    /\ UNCHANGED <<prog, gameVars, messages, calls, idx, outputs, used, nInvoked,
                   content, finalText, td>>

\* call_openai: the completion call raises and the exception is raised again;
\* process_request's except clause turns it into the returned error string
CallRaise ==
    /\ prog = "travel" /\ pc = "call"
    /\ \E e \in ErrTexts :
          /\ ~MayRetry(attempt, e)
          /\ err' = e
          /\ returned' = ErrorString(e)
    /\ nCompl' = nCompl + 1
    /\ pc' = "returned"
    /\ UNCHANGED <<prog, gameVars, messages, calls, idx, outputs, used, nInvoked,
                   content, finalText, td, attempt, slept>>

\* process_request: the response has no tool calls
ResponseText ==
    /\ prog = "travel" /\ pc = "call"
    /\ \E text \in TravelReplies :
          /\ content' = text
          /\ finalText' = text
    /\ attempt' = 0 /\ slept' = <<>> /\ err' = None /\ nCompl' = 0
    /\ pc' = "final"
    /\ UNCHANGED <<prog, gameVars, messages, calls, idx, outputs, used, nInvoked,
                   td, returned>>

\* process_request: the response carries tool calls; the assistant message
\* recording them is appended and process_tool_calls starts
ResponseTools ==
    /\ prog = "travel" /\ pc = "call"
    /\ TravelHasTools(td.current_agent)
    /\ used < MaxToolCalls
    /\ \E batch \in Batches(TravelCallKinds, MaxToolCalls - used) :
          /\ calls' = WithIds(batch, used)
          /\ used' = used + Len(batch)
    /\ messages' = Append(messages, AssistantCallsMsg(calls'))
    /\ idx' = 1
    /\ outputs' = <<>>
    /\ attempt' = 0 /\ slept' = <<>> /\ err' = None /\ nCompl' = 0
    /\ pc' = "tools"
    /\ UNCHANGED <<prog, gameVars, nInvoked, content, finalText, td, returned>>

\* process_tool_calls: one iteration of the for loop; after the last one the
\* outputs extend the transcript and process_request calls the client again
ProcessToolCall ==
    /\ prog = "travel" /\ pc = "tools"
    /\ LET tc == calls[idx]
       IN  IF tc.args = "not_json"
           THEN /\ returned' = ErrorString(<<"JSONDecodeError">>)
                /\ pc' = "returned"
                /\ UNCHANGED <<messages, idx, outputs, nInvoked, attempt, slept, err>>
           ELSE /\ outputs' = Append(outputs, ToolMsg(tc, TravelToolOutput(tc)))
                /\ nInvoked' = IF TravelToolOutput(tc) \in {<<"Tool not available">>, <<"Tool error">>}
                               THEN nInvoked ELSE nInvoked + 1
                /\ IF idx = Len(calls)
                   THEN /\ messages' = messages \o outputs'
                        /\ attempt' = 0 /\ slept' = <<>> /\ err' = None
                        /\ pc' = "call"
                        /\ idx' = idx
                   ELSE /\ idx' = idx + 1
                        /\ pc' = "tools"
                        /\ UNCHANGED <<messages, attempt, slept, err>>
                /\ UNCHANGED returned
    /\ UNCHANGED <<prog, gameVars, nCompl, calls, used, content, finalText, td>>

\* the transcript and plan once the final answer is recorded
WithReply(msgs) == Append(msgs, AssistantMsg(finalText))
PlanWithReply == Append(td.full_plan, [agent |-> td.current_agent, response |-> finalText])

\* process_request: the Destination Specialist's final answer
FinalDestination ==
    /\ prog = "travel" /\ pc = "final"
    /\ td.current_agent = "Destination Specialist"
    /\ LET destination == ExtractDestination(finalText)
       IN  IF destination = None \/ destination = <<>>
           THEN /\ messages' = WithReply(messages)
                /\ td' = [td EXCEPT !.full_plan = PlanWithReply]
                /\ returned' = <<"Error: Could not determine destination">>
                /\ pc' = "returned"
                /\ UNCHANGED <<attempt, slept, err>>
           ELSE /\ messages' = HandoffToAgent(WithReply(messages), "Booking Specialist",
                                   <<"Destination confirmed:">> \o destination
                                       \o <<NL, "Please book flights and hotels.">>)
                /\ td' = [td EXCEPT !.full_plan = PlanWithReply,
                                    !.user_preferences = destination,
                                    !.current_agent = "Booking Specialist"]
                /\ attempt' = 0 /\ slept' = <<>> /\ err' = None
                /\ pc' = "call"
                /\ UNCHANGED returned
    /\ UNCHANGED <<prog, gameVars, nCompl, calls, idx, outputs, used, nInvoked, content, finalText>>

\* process_request: the Booking Specialist's final answer
FinalBooking ==
    /\ prog = "travel" /\ pc = "final"
    /\ td.current_agent = "Booking Specialist"
    /\ IF finalText # None /\ finalText # <<>>
          /\ Contains(Upper(finalText), <<"BOOKINGS", SP, "COMPLETE">>)
       THEN /\ messages' = HandoffToAgent(WithReply(messages), "Exploration Specialist",
                               <<"Bookings complete. Please suggest attractions and restaurants.">>)
            /\ td' = [td EXCEPT !.full_plan = PlanWithReply,
                                !.current_agent = "Exploration Specialist"]
            /\ attempt' = 0 /\ slept' = <<>> /\ err' = None
            /\ pc' = "call"
            /\ UNCHANGED returned
       ELSE /\ messages' = WithReply(messages)
            /\ td' = [td EXCEPT !.full_plan = PlanWithReply]
            /\ returned' = FormatFinalPlan(PlanWithReply)
            /\ pc' = "returned"
            /\ UNCHANGED <<attempt, slept, err>>
    /\ UNCHANGED <<prog, gameVars, nCompl, calls, idx, outputs, used, nInvoked, content, finalText>>

\* process_request: the Exploration Specialist's final answer
FinalExplore ==
    /\ prog = "travel" /\ pc = "final"
    /\ td.current_agent = "Exploration Specialist"
    /\ messages' = WithReply(messages)
    /\ td' = [td EXCEPT !.full_plan = PlanWithReply]
    /\ returned' = FormatFinalPlan(PlanWithReply)
    /\ pc' = "returned"
    /\ UNCHANGED <<prog, gameVars, nCompl, calls, idx, outputs, used, nInvoked, content, finalText,
                   attempt, slept, err>>

TravelNext ==
    \/ StartConversation
    \/ CallRetry
    \/ CallRaise
    \/ ResponseText
    \/ ResponseTools
    \/ ProcessToolCall
    \/ FinalDestination
    \/ FinalBooking
    \/ FinalExplore

SpecTravel == TravelInit /\ [][TravelNext]_vars

(***************************************************************************)
(* career-mentor-agent: CareerMentor and the main loop                     *)
(***************************************************************************)
DataScientist == <<"Data", SP, "Scientist">>
DataAnalyst == <<"Data", SP, "Analy", "st">>
UXDesigner == <<"UX", SP, "Design", "er">>
ProductDesigner == <<"Product", SP, "Design", "er">>
CybersecurityAnalyst == <<"Cyber", "security", SP, "Analy", "st">>
SecurityEngineer == <<"Security", SP, "Engineer">>
WebDeveloper == <<"Web", SP, "Developer">>
FrontendDeveloper == <<"Front", "end", SP, "Developer">>
BackendDeveloper == <<"Back", "end", SP, "Developer">>
SoftwareEngineer == <<"Software", SP, "Engineer">>
FullStackDeveloper == <<"Full", SP, "Stack", SP, "Developer">>

\* the keys of roadmaps in get_career_roadmap and of job_data in _job_agent
RoadmapKeys ==
    {SoftwareEngineer, WebDeveloper, DataScientist, UXDesigner, CybersecurityAnalyst}

\* lines typed at the "You: " prompt
CareerInputs ==
    { <<"I", SP, "enjoy", SP, "data">>,
      <<"design">>,
      <<"cyber">>,
      <<"web">>,
      <<"coding">>,
      <<"go", SP, "with", SP, "data", SP, "scientist", SP, "please">>,
      <<"DATA", SP, "ANALY", "ST">>,
      <<"UX", SP, "Design", "er">>,
      <<"Software", SP, "Engineer">>,
      <<"back", "end", SP, "developer", SP, "or", SP, "web", SP, "developer">>,
      <<"Web", SP, "Developer", SP, "job", "s">>,
      <<"tell", SP, "me", SP, "more">>,
      <<"job", "s">>,
      <<"new", SP, "job">>,
      <<"new">>,
      <<"New">>,
      <<"JOB", "S">>,
      <<"opportunit", "ies">>,
      <<SP, "Exit">> }

\* a recommendation that has nothing to offer for unrecognized interests
RecommendOrNothing(interests) ==
    IF Has(interests, "data") \/ Has(interests, "stat") \/ Has(interests, "analy")
    THEN <<DataScientist, DataAnalyst>>
    ELSE IF Has(interests, "web") \/ Has(interests, "front") \/ Has(interests, "back")
    THEN <<WebDeveloper, FrontendDeveloper, BackendDeveloper>>
    ELSE <<>>

\* _career_agent: the first-time recommendation for the lowered interests
Recommend(interests) ==
    IF Has(interests, "data") \/ Has(interests, "stat") \/ Has(interests, "analy")
    THEN <<DataScientist, DataAnalyst>>
    ELSE IF Has(interests, "design") \/ Has(interests, "ui") \/ Has(interests, "ux")
            \/ Has(interests, "interface")
    THEN <<UXDesigner, ProductDesigner>>
    ELSE IF Has(interests, "security") \/ Has(interests, "cyber") \/ Has(interests, "hack")
    THEN <<CybersecurityAnalyst, SecurityEngineer>>
    ELSE IF Has(interests, "web") \/ Has(interests, "front") \/ Has(interests, "back")
    THEN <<WebDeveloper, FrontendDeveloper, BackendDeveloper>>
    ELSE <<SoftwareEngineer, FullStackDeveloper>>

\* the positions of the recommendations whose lowered name the lowered input contains
Matches(recommendations, lowered) ==
    {i \in 1..Len(recommendations) : Contains(lowered, Lower(recommendations[i]))}

\* FirstMatch that keeps scanning and ends on the last matching recommendation
LastMatch(recommendations, lowered) ==
    LET m == Matches(recommendations, lowered)
    IN  recommendations[CHOOSE i \in m : \A j \in m : i >= j]

\* the first matching recommendation in list order
FirstMatch(recommendations, lowered) ==
    LET m == Matches(recommendations, lowered)
    IN  recommendations[CHOOSE i \in m : \A j \in m : i <= j]

Reply(kind, career, list) == [kind |-> kind, career |-> career, list |-> list]

\* _handle_agent_handoff whose three tests run one after the other
HandleAgentHandoffChained(c, raw_input) ==
    LET user_input == Lower(raw_input)
        c1 == IF c.current_agent = "career" /\ c.awaiting_selection
                 /\ Matches(c.recommendations, user_input) # {}
              THEN [c EXCEPT !.career = FirstMatch(c.recommendations, user_input),
                             !.awaiting_selection = FALSE,
                             !.current_agent = "skill"]
              ELSE c
        c2 == IF c1.current_agent = "skill"
                 /\ (Has(user_input, "job") \/ Has(user_input, "opportunit"))
              THEN [c1 EXCEPT !.current_agent = "job"]
              ELSE c1
    IN  IF c2.current_agent = "job" /\ Has(user_input, "new")
        THEN [c2 EXCEPT !.current_agent = "career",
                        !.career = None,
                        !.awaiting_selection = FALSE]
        ELSE c2

\* _handle_agent_handoff that looks for the keywords in the input as typed
HandleAgentHandoffAsTyped(c, raw_input) ==
    LET user_input == Lower(raw_input)
    IN  IF c.current_agent = "career" /\ c.awaiting_selection
           /\ Matches(c.recommendations, user_input) # {}
        THEN [c EXCEPT !.career = FirstMatch(c.recommendations, user_input),
                       !.awaiting_selection = FALSE,
                       !.current_agent = "skill"]
        ELSE IF c.current_agent = "skill"
                /\ (Has(raw_input, "job") \/ Has(raw_input, "opportunit"))
        THEN [c EXCEPT !.current_agent = "job"]
        ELSE IF c.current_agent = "job" /\ Has(raw_input, "new")
        THEN [c EXCEPT !.current_agent = "career",
                       !.career = None,
                       !.awaiting_selection = FALSE]
        ELSE c

\* _handle_agent_handoff
HandleAgentHandoff(c, raw_input) ==
    LET user_input == Lower(raw_input)
    IN  IF c.current_agent = "career" /\ c.awaiting_selection
           /\ Matches(c.recommendations, user_input) # {}
        THEN [c EXCEPT !.career = FirstMatch(c.recommendations, user_input),
                       !.awaiting_selection = FALSE,
                       !.current_agent = "skill"]
        ELSE IF c.current_agent = "skill"
                /\ (Has(user_input, "job") \/ Has(user_input, "opportunit"))
        THEN [c EXCEPT !.current_agent = "job"]
        ELSE IF c.current_agent = "job" /\ Has(user_input, "new")
        THEN [c EXCEPT !.current_agent = "career",
                       !.career = None,
                       !.awaiting_selection = FALSE]
        ELSE c

\* _career_agent: the words the first-time recommendation looks for
InterestKeywords ==
    {"data", "stat", "analy", "design", "ui", "ux", "interface",
     "security", "cyber", "hack", "web", "front", "back"}

\* _career_agent that offers new suggestions when an unmatched input describes
\* interests, as its prompt says
CareerAgentNewSuggestions(c, user_input) ==
    IF c.awaiting_selection /\ Matches(c.recommendations, Lower(user_input)) # {}
    THEN [cm |-> [c EXCEPT !.career = FirstMatch(c.recommendations, Lower(user_input)),
                           !.awaiting_selection = FALSE,
                           !.current_agent = "skill"],
          reply |-> Reply("great_choice", FirstMatch(c.recommendations, Lower(user_input)), <<>>)]
    ELSE IF c.awaiting_selection
            /\ ~\E k \in InterestKeywords : Has(Lower(user_input), k)
    THEN [cm |-> c, reply |-> Reply("select_prompt", None, c.recommendations)]
    ELSE [cm |-> [c EXCEPT !.recommendations = Recommend(Lower(user_input)),
                           !.awaiting_selection = TRUE],
          reply |-> Reply("recommend", None, Recommend(Lower(user_input)))]

\* _career_agent that treats an unmatched input as a new description of interests
CareerAgentRecomputing(c, user_input) ==
    IF c.awaiting_selection /\ Matches(c.recommendations, Lower(user_input)) # {}
    THEN [cm |-> [c EXCEPT !.career = FirstMatch(c.recommendations, Lower(user_input)),
                           !.awaiting_selection = FALSE,
                           !.current_agent = "skill"],
          reply |-> Reply("great_choice", FirstMatch(c.recommendations, Lower(user_input)), <<>>)]
    ELSE [cm |-> [c EXCEPT !.recommendations = Recommend(Lower(user_input)),
                           !.awaiting_selection = TRUE],
          reply |-> Reply("recommend", None, Recommend(Lower(user_input)))]

\* _career_agent: the new CareerMentor and the reply
CareerAgent(c, user_input) ==
    IF c.awaiting_selection
    THEN IF Matches(c.recommendations, Lower(user_input)) # {}
         THEN [cm |-> [c EXCEPT !.career = FirstMatch(c.recommendations, Lower(user_input)),
                                !.awaiting_selection = FALSE,
                                !.current_agent = "skill"],
               reply |-> Reply("great_choice", FirstMatch(c.recommendations, Lower(user_input)), <<>>)]
         ELSE [cm |-> c, reply |-> Reply("select_prompt", None, c.recommendations)]
    ELSE [cm |-> [c EXCEPT !.recommendations = Recommend(Lower(user_input)),
                           !.awaiting_selection = TRUE],
          reply |-> Reply("recommend", None, Recommend(Lower(user_input)))]

\* get_career_roadmap: the key that matches case-insensitively, or None
RoadmapKey(career) ==
    IF \E k \in RoadmapKeys : Lower(k) = Lower(career)
    THEN CHOOSE k \in RoadmapKeys : Lower(k) = Lower(career)
    ELSE None

\* _skill_agent: the roadmap of the key, or "No roadmap available for <career>"
SkillAgent(c) ==
    IF RoadmapKey(c.career) # None
    THEN Reply("roadmap", RoadmapKey(c.career), <<>>)
    ELSE Reply("no_roadmap", c.career, <<>>)

\* _job_agent: the job market of the key, or of "Technology Professional"
JobAgent(c) ==
    IF RoadmapKey(c.career) # None
    THEN Reply("job_market", RoadmapKey(c.career), <<>>)
    ELSE Reply("job_market", <<"Technology Professional">>, <<>>)

\* CareerMentor.run: the new CareerMentor and the reply; career.lower() raises
\* when the skill or job agent runs with context["career"] None
Run(c, user_input) ==
    LET h == HandleAgentHandoff(c, user_input)
    IN  IF h.current_agent = "career" THEN CareerAgent(h, user_input)
        ELSE IF h.career = None THEN [cm |-> h, reply |-> Reply("raised", None, <<>>)]
        ELSE IF h.current_agent = "skill" THEN [cm |-> h, reply |-> SkillAgent(h)]
        ELSE [cm |-> h, reply |-> JobAgent(h)]

CareerInit ==
    /\ prog = "career"
    /\ gm = GameMasterInit
    /\ pc = "prompt"
    /\ lastResp = None
    /\ lastPre = gm
    /\ lastRet = None
    /\ LoopIdle
    /\ TravelIdle
    /\ CareerIdle

\* the main loop: a line is read; "exit" or "quit" ends it, anything else is run
CareerTurn ==
    /\ prog = "career" /\ pc = "prompt"
    /\ \E line \in CareerInputs :
          LET user_input == Strip(line)
              out == Run(cm, user_input)
          IN  IF Lower(user_input) \in {<<"exit">>, <<"quit">>}
              THEN /\ pc' = "ended"
                   /\ UNCHANGED careerVars
              ELSE /\ cm' = out.cm
                   /\ cmPre' = cm
                   /\ cmInput' = user_input
                   /\ cmReply' = out.reply
                   /\ pc' = IF out.reply.kind = "raised" THEN "crashed" ELSE "prompt"
    /\ UNCHANGED <<prog, gm, lastResp, lastPre, lastRet, loopVars, travelVars>>

CareerNext == CareerTurn

SpecCareer == CareerInit /\ [][CareerNext]_vars

(***************************************************************************)
(* Driver of process_response alone: a GameMaster in a state the session   *)
(* can leave it in, and one call on an enumerated text.                    *)
(***************************************************************************)
TextAlphabet == GameMarkers \cup {"30", "150", "-20"} \cup {SP, NL, "Key"}
AllTexts == SeqsUpTo(TextAlphabet, MaxTextLen)

ParserStarts ==
    { GameMasterInit,
      [GameMasterInit EXCEPT !.player_health = 30],
      [GameMasterInit EXCEPT !.player_health = 0],
      [GameMasterInit EXCEPT !.monster = <<"Orc">>, !.combat_active = TRUE,
                             !.current_agent = "monster_agent", !.agent_name = "Monster"],
      [GameMasterInit EXCEPT !.item_discovered = <<"Orb">>, !.player_inventory = <<(<<"Orb">>)>>,
                             !.current_agent = "item_agent", !.agent_name = "Item"] }

ParserInit ==
    /\ prog = "parser"
    /\ gm \in ParserStarts
    /\ pc = "call"
    /\ lastResp = None
    /\ lastPre = gm
    /\ lastRet = None
    /\ LoopIdle
    /\ TravelIdle
    /\ CareerIdle

CallProcessResponse ==
    /\ prog = "parser"
    /\ pc = "call"
    /\ \E response \in AllTexts :
          LET out == ProcessResponse(response, gm)
          IN  /\ gm' = out.gm
              /\ lastResp' = response
              /\ lastPre' = gm
              /\ lastRet' = out.ret
              /\ pc' = IF out.raised THEN "raised" ELSE "returned"
    /\ UNCHANGED <<prog, loopVars, travelVars, careerVars>>

ParserNext == CallProcessResponse

SpecParser == ParserInit /\ [][ParserNext]_vars

(***************************************************************************)
(* A run of the repository is a run of one of its three demos              *)
(***************************************************************************)
Init == GameInit \/ TravelInit \/ CareerInit

Next == GameNext \/ TravelNext \/ CareerNext

Spec == Init /\ [][Next]_vars

\* the tool-call loop of an agent is running
InLoop ==
    \/ prog = "game" /\ pc \in {"request", "dispatch"}
    \/ prog = "travel" /\ pc \in {"call", "tools"}

\* a running loop keeps executing: the client answers every request (or
\* raises) and every tool handler returns; the prompts for input may wait forever
FairSpec == Spec /\ WF_vars(InLoop /\ Next)

(***************************************************************************)
(* Properties of process_response (checked under SpecParser)               *)
(***************************************************************************)
Max(a, b) == IF a >= b THEN a ELSE b

Called == lastResp # None

MarkerCount(s) == Cardinality({i \in 1..Len(s) : s[i] \in GameMarkers})

\* the text's only marker is one DAMAGE_PLAYER: and its payload is an integer literal
IsDamageText(s) ==
    /\ Has(s, DAMAGE_PLAYER)
    /\ MarkerCount(s) = 1
    /\ IsInt(Strip(SubSeq(s, FirstAt(s, DAMAGE_PLAYER) + 1, Len(s))))

DamageOf(s) == ToInt(Strip(SubSeq(s, FirstAt(s, DAMAGE_PLAYER) + 1, Len(s))))

\* C3: for health h >= 0 and integer damage d, process_response on a text whose
\* marker is DAMAGE_PLAYER: d returns normally, leaves player_health = max(0, h - d)
\* and has game_over true exactly when h - d <= 0.
C3_DamageClamp ==
    (Called /\ IsDamageText(lastResp) /\ lastPre.player_health >= 0) =>
        LET h == lastPre.player_health
            d == DamageOf(lastResp)
        IN  /\ pc = "returned"
            /\ gm.player_health = Max(0, h - d)
            /\ gm.game_over = (h - d <= 0)

\* health 100, DAMAGE_PLAYER: 150 has been applied: health 0, game over
C3_Witness ==
    /\ lastResp = <<DAMAGE_PLAYER, SP, "150">>
    /\ lastPre.player_health = 100
    /\ gm.player_health = 0
    /\ gm.game_over

\* C4: a text with none of the recognized markers is returned unchanged and no
\* GameState field, current_agent or agent_name changes.
C4_NoMarkerNoEffect ==
    (Called /\ MarkerCount(lastResp) = 0) =>
        /\ pc = "returned"
        /\ lastRet = lastResp
        /\ gm = lastPre

\* a marker-free text with surrounding blanks has been processed
C4_Witness ==
    /\ lastResp = <<SP, "Key", NL>>
    /\ lastRet = <<SP, "Key", NL>>
    /\ gm = lastPre

\* the positions i at which the text reads  prefix + "HANDOFF_ITEM: " + name
ItemForms(s) == {i \in 1..(Len(s) - 1) : s[i] = HANDOFF_ITEM /\ s[i + 1] = SP}
ItemPrefix(s, i) == SubSeq(s, 1, i - 1)
ItemName(s, i) == SubSeq(s, i + 2, Len(s))

ItemHandoffDone(prefix, name) ==
    /\ pc = "returned"
    /\ lastRet = Strip(prefix)
    /\ ~Has(lastRet, HANDOFF_ITEM)
    /\ gm.item_discovered = name
    /\ gm.current_agent = "item_agent"
    /\ gm.agent_name = "Item"

\* C5 as stated: for every prefix and item name, prefix + "HANDOFF_ITEM: " + name
\* returns the trimmed prefix, sets item_discovered to exactly the name and makes
\* the Item agent current.
C5_Original ==
    Called =>
        \A i \in ItemForms(lastResp) :
            ItemHandoffDone(ItemPrefix(lastResp, i), ItemName(lastResp, i))

HandoffFree(s) == ~Has(s, HANDOFF_MONSTER) /\ ~Has(s, HANDOFF_ITEM)

\* C5 amended: the same, for a prefix and a name that contain no HANDOFF_MONSTER:
\* and no HANDOFF_ITEM: marker, the name being one line with no leading or
\* trailing whitespace.
C5_ItemHandoff ==
    Called =>
        \A i \in ItemForms(lastResp) :
            LET prefix == ItemPrefix(lastResp, i)
                name == ItemName(lastResp, i)
            IN  (HandoffFree(prefix) /\ HandoffFree(name) /\ Strip(name) = name /\ ~Has(name, NL)) =>
                    ItemHandoffDone(prefix, name)

\* "HANDOFF_ITEM: Key" has been processed while the Narrator was current
C5_Witness ==
    /\ lastResp = <<HANDOFF_ITEM, SP, "Key">>
    /\ lastPre.current_agent = "narrator"
    /\ gm.item_discovered = <<"Key">>
    /\ gm.current_agent = "item_agent"
    /\ lastRet = <<>>

(***************************************************************************)
(* Properties of the sessions (checked under Spec, SpecGame, SpecTravel,   *)
(* SpecCareer and FairSpec)                                                *)
(***************************************************************************)
\* the client is about to be called with the transcript
AtRequest ==
    \/ prog = "game" /\ pc = "request"
    \/ prog = "travel" /\ pc = "call"

IsCallsMsg(m) == m.role = "assistant" /\ m.tool_calls # <<>>

\* the assistant message at position i is followed by one tool result per
\* request and no more, and results and requests match one to one by id
AnsweredAt(i) ==
    LET reqs == messages[i].tool_calls
        n == Len(reqs)
    IN  /\ i + n <= Len(messages)
        /\ \A k \in 1..n :
              /\ messages[i + k].role = "tool"
              /\ Cardinality({j \in 1..n : reqs[j].id = messages[i + k].tool_call_id}) = 1
        /\ \A j \in 1..n :
              Cardinality({k \in 1..n : messages[i + k].tool_call_id = reqs[j].id}) = 1
        /\ (i + n < Len(messages) => messages[i + n + 1].role # "tool")

\* C1: in both tool-call loops, whenever a completion request is made, every
\* assistant message of the transcript that records tool-call requests is
\* followed by exactly as many tool-result messages as it has requests, each
\* result carrying the id of exactly one of them; and a tool message only ever
\* follows such an assistant message.
C1_ToolResultsMatchRequests ==
    AtRequest =>
        /\ \A i \in 1..Len(messages) : IsCallsMsg(messages[i]) => AnsweredAt(i)
        /\ \A i \in 1..Len(messages) :
              messages[i].role = "tool" =>
                  \E j \in 1..(i - 1) :
                      IsCallsMsg(messages[j]) /\ i - j <= Len(messages[j].tool_calls)

\* the travel loop is about to call the client after a response with two tool
\* calls has been answered by two tool results
C1_Witness ==
    /\ prog = "travel" /\ pc = "call"
    /\ \E i \in 1..Len(messages) :
          /\ IsCallsMsg(messages[i])
          /\ Len(messages[i].tool_calls) = 2
          /\ Len(messages) = i + 2
          /\ messages[i + 2].tool_call_id = messages[i].tool_calls[2].id

\* call_openai has raised to process_request
CallOpenaiRaised == prog = "travel" /\ pc = "returned" /\ err # None

\* C2: when every completion call of a call_openai invocation raises a
\* rate-limit-classified error (the invocation ends on one; every earlier error
\* was retried, hence classified so), exactly max_retries = 5 completion calls
\* were made, with a sleep after each but the last, and the error is raised to
\* process_request, which returns its error string.
C2_RetryCeiling ==
    /\ nCompl <= max_retries
    /\ (CallOpenaiRaised /\ IsRateLimit(err)) =>
          /\ nCompl = max_retries
          /\ Len(slept) = max_retries - 1
          /\ returned = ErrorString(err)

\* five rate-limit errors in a row have ended a call_openai
C2_Witness ==
    /\ CallOpenaiRaised
    /\ err = <<"Rate", SP, "limit">>
    /\ nCompl = 5
    /\ returned = <<"Error:", "Rate", SP, "limit">>

CareerRan == prog = "career" /\ cmInput # None

\* the run was made in the career state while a selection was awaited
WasAwaiting == CareerRan /\ cmPre.current_agent = "career" /\ cmPre.awaiting_selection

\* the input of the last run names recommendation i, case-insensitively
Names(i) == Contains(Lower(cmInput), Lower(cmPre.recommendations[i]))

\* C6: when the current agent is career and awaiting_selection is true, run(input)
\* with an input that contains, case-insensitively, a recommended career's name
\* sets context.career to the first such career in list order, clears
\* awaiting_selection and makes skill the current agent.
C6_SelectionMatch ==
    WasAwaiting =>
        \A i \in 1..Len(cmPre.recommendations) :
            (Names(i) /\ \A j \in 1..(i - 1) : ~Names(j)) =>
                /\ cm.career = cmPre.recommendations[i]
                /\ cm.awaiting_selection = FALSE
                /\ cm.current_agent = "skill"
                /\ cm.recommendations = cmPre.recommendations

\* an input naming the third and then the first recommendation selected the first
C6_Witness ==
    /\ WasAwaiting
    /\ cmPre.recommendations = <<WebDeveloper, FrontendDeveloper, BackendDeveloper>>
    /\ Names(1) /\ Names(3)
    /\ cm.career = WebDeveloper
    /\ cm.current_agent = "skill"

\* C7: when the current agent is career and awaiting_selection is true, run(input)
\* with an input that contains no recommended career name leaves current_agent,
\* awaiting_selection, context.career and context.recommendations unchanged and
\* the reply lists the same recommendations again.
C7_NoMatchReprompts ==
    (WasAwaiting /\ \A i \in 1..Len(cmPre.recommendations) : ~Names(i)) =>
        /\ cm.current_agent = "career"
        /\ cm.awaiting_selection = TRUE
        /\ cm.career = cmPre.career
        /\ cm.recommendations = cmPre.recommendations
        /\ cmReply.kind = "select_prompt"
        /\ cmReply.list = cmPre.recommendations

\* "tell me more" was typed while the data careers were offered
C7_Witness ==
    /\ WasAwaiting
    /\ cmInput = <<"tell", SP, "me", SP, "more">>
    /\ cmPre.recommendations = <<DataScientist, DataAnalyst>>
    /\ cmReply.list = <<DataScientist, DataAnalyst>>
    /\ cm.awaiting_selection

\* C8: for the Item agent (empty tool subset), the tool-call loop returns the
\* content of a response without tool calls verbatim after a single completion
\* call, with no tool handler invoked and no message added to the transcript;
\* when the text has no marker it is also what process_response hands back.
C8_NoToolsVerbatim ==
    (prog = "game" /\ caller = "item_agent" /\ content # None) =>
        /\ finalText = content
        /\ nCompl = 1
        /\ nInvoked = 0
        /\ Len(messages) = 2
        /\ (Called /\ MarkerCount(content) = 0) => lastResp = content /\ shown = content

\* the Item agent answered a marker-free text and it was displayed
C8_Witness ==
    /\ prog = "game" /\ caller = "item_agent"
    /\ content = <<"walk">>
    /\ shown = <<"walk">>
    /\ nCompl = 1 /\ nInvoked = 0

SystemCount == Cardinality({i \in 1..Len(messages) : messages[i].role = "system"})

CurrentInstructions ==
    IF prog = "game" THEN <<"instructions", gm.current_agent>>
    ELSE <<"instructions", td.current_agent>>

\* C9: at every completion request the transcript holds exactly one system
\* message, it is the first message, and its content is the instruction preamble
\* of the agent that is current at that moment (in the travel scenario also after
\* each of the two handoffs).
C9_OneSystemMessage ==
    AtRequest =>
        /\ Len(messages) >= 1
        /\ messages[1].role = "system"
        /\ SystemCount = 1
        /\ messages[1].content = CurrentInstructions

\* the client is called for the Exploration Specialist, after both handoffs
C9_Witness ==
    /\ prog = "travel" /\ pc = "call"
    /\ td.current_agent = "Exploration Specialist"
    /\ Len(td.full_plan) = 2
    /\ messages[1].content = <<"instructions", "Exploration Specialist">>

\* no response without tool calls has been received by the running loop
NoAnswerYet ==
    /\ prog = "game" => finalText = None
    /\ prog = "travel" =>
          \A i \in 1..Len(td.full_plan) : td.full_plan[i].agent # td.current_agent

\* the loop has just yielded the content of the response as its final answer
Answered ==
    \/ prog = "game" /\ pc = "answered"
    \/ prog = "travel" /\ pc = "final"

\* C10: the tool-call loop of an agent stops at the first response that carries
\* no tool calls (while it runs, no such response has been received), yields that
\* response's content as the final answer (the value generate_response returns
\* in the game, the agent's plan fragment in the travel demo), and makes no
\* completion call and no tool invocation after it; and, the client requesting
\* tool calls only finitely often, a running loop eventually stops.
C10_StopsAtFirstAnswer ==
    /\ [](InLoop => NoAnswerYet)
    /\ [](Answered => finalText = content)
    /\ [][Answered => (nCompl' = nCompl /\ nInvoked' = nInvoked /\ used' = used)]_vars
    /\ [][(Answered /\ prog = "travel") =>
              td'.full_plan = Append(td.full_plan,
                                     [agent |-> td.current_agent, response |-> content])]_vars
    /\ [](InLoop => <>(~InLoop))

\* the game loop has stopped on a text response after a round of tool calls
C10_Witness ==
    /\ prog = "game" /\ pc = "answered"
    /\ Len(messages) > 2
    /\ nCompl = 2
    /\ finalText = content /\ content # None

\* the tool call the loop is about to process
GameCallAt == prog = "game" /\ pc = "dispatch"
TravelCallAt == prog = "travel" /\ pc = "tools"

GameRegistry == {"roll_dice", "generate_event"}
TravelRegistry == {"get_flights", "suggest_hotels", "get_attractions", "get_restaurants"}

\* the last message of a transcript
Last(msgs) == msgs[Len(msgs)]

\* msgs grew by one tool message that answers call tc
AnswersCall(before, after, tc) ==
    /\ Len(after) = Len(before) + 1
    /\ \A i \in 1..Len(before) : after[i] = before[i]
    /\ Last(after).role = "tool"
    /\ Last(after).tool_call_id = tc.id
    /\ Last(after).name = tc.name

\* C11: a tool call with decodable arguments whose name is not a registered tool
\* is answered by a tool message with that call's id whose content is an error
\* string; nothing is raised and no handler runs, the next call of the same
\* response is processed next, and after the last one the loop makes the next
\* completion request.
C11_UnknownToolAnswered ==
    [][ /\ (GameCallAt /\ calls[idx].name \notin GameRegistry /\ calls[idx].args # "not_json") =>
              /\ AnswersCall(messages, messages', calls[idx])
              /\ Last(messages').content = <<"Error: Unknown function", calls[idx].name>>
              /\ nInvoked' = nInvoked
              /\ calls' = calls
              /\ IF idx = Len(calls) THEN pc' = "request"
                 ELSE pc' = "dispatch" /\ idx' = idx + 1
        /\ (TravelCallAt /\ calls[idx].name \notin TravelRegistry /\ calls[idx].args # "not_json") =>
              /\ AnswersCall(outputs, outputs', calls[idx])
              /\ Last(outputs').content = <<"Tool not available">>
              /\ nInvoked' = nInvoked
              /\ calls' = calls
              /\ IF idx = Len(calls) THEN pc' = "call" /\ messages' = messages \o outputs'
                 ELSE pc' = "tools" /\ idx' = idx + 1
      ]_vars

\* the game loop asks the client again after answering cast_spell with an error
\* string and then rolling the dice for the second call of the same response
C11_Witness ==
    /\ prog = "game" /\ pc = "request"
    /\ Len(calls) = 2 /\ Len(messages) = 5
    /\ calls[1].name = "cast_spell" /\ calls[2].name = "roll_dice"
    /\ messages[4].role = "tool" /\ messages[4].tool_call_id = calls[1].id
    /\ messages[4].content = <<"Error: Unknown function", "cast_spell">>
    /\ messages[5].role = "tool" /\ messages[5].tool_call_id = calls[2].id

\* executing the call fails: its arguments do not decode, or its handler raises
\* on them
CallFails(tc, registry) ==
    \/ tc.args = "not_json"
    \/ tc.args = "unusable" /\ tc.name \in registry

Registry == IF prog = "game" THEN GameRegistry ELSE TravelRegistry

IsErrorString(c) ==
    /\ c # <<>>
    /\ c[1] \in {"Tool error", "Tool not available", "Error: Unknown function"}

\* C12: in both tool-call loops a failure while executing one tool call is caught
\* and turned into an error-string tool result and never aborts the loop: once
\* the loop is no longer in the middle of a response's tool calls, every recorded
\* request has its tool result, and the result of a call that failed is an error
\* string.
C12_ToolFailureCaught ==
    (prog \in {"game", "travel"} /\ ~GameCallAt /\ ~TravelCallAt) =>
        \A i \in 1..Len(messages) :
            IsCallsMsg(messages[i]) =>
                /\ AnsweredAt(i)
                /\ \A k \in 1..Len(messages[i].tool_calls) :
                      CallFails(messages[i].tool_calls[k], Registry) =>
                          IsErrorString(messages[i + k].content)

\* what start_conversation returned is an error string
IsErrorReturn(r) ==
    /\ r # Raised /\ r # None /\ r # <<>>
    /\ r[1] \in {"Error:", "Error: Insufficient credits on OpenRouter"}

\* C13: in the travel demo, whenever call_openai fails fatally (a non-transient
\* error, or transient errors up to the attempt ceiling), at whichever agent's
\* stage, process_request returns an error string carrying the error (the credits
\* notice for a credit error) instead of a plan, and no exception reaches the
\* caller of start_conversation.
C13_FatalFailureReturnsError ==
    CallOpenaiRaised =>
        /\ IsErrorReturn(returned)
        /\ returned # FormatFinalPlan(td.full_plan)
        /\ (~Has(err, "402") /\ ~Has(Lower(err), "credit")) => returned = <<"Error:">> \o err

\* invalid credentials at the Exploration Specialist's stage, after two handoffs
C13_Witness ==
    /\ CallOpenaiRaised
    /\ td.current_agent = "Exploration Specialist"
    /\ Len(td.full_plan) = 2
    /\ err = <<"401", SP, "Unauthorized">>
    /\ returned = <<"Error:", "401", SP, "Unauthorized">>

PayloadMarkers ==
    {HANDOFF_MONSTER, HANDOFF_ITEM, UPDATE_LOCATION, DAMAGE_PLAYER, HEAL_PLAYER, ADD_ITEM}

\* the rest of the line after position i of s
RestOfLine(s, i) ==
    LET after == SubSeq(s, i + 1, Len(s))
    IN  IF Has(after, NL) THEN SubSeq(after, 1, FirstAt(after, NL) - 1) ELSE after

\* the payloads the markers of s carry
Payloads(s) ==
    {Strip(RestOfLine(s, i)) : i \in {j \in 1..Len(s) : s[j] \in PayloadMarkers}} \ {<<>>}

\* the text was displayed to the player as an agent's response
Displayed == prog = "game" /\ shown # None /\ content # None

\* C14: in the game session no text displayed to the player as an agent's
\* response contains a recognized marker or the payload of a marker of the
\* response it was made from; this covers the opening narration and responses
\* with markers of several families.
C14_NoMarkerDisplayed ==
    Displayed =>
        /\ MarkerCount(shown) = 0
        /\ \A payload \in Payloads(content) : ~Contains(shown, payload)

\* the input of the last run holds the keyword, in any letter case
Keyword(k) == Has(Lower(cmInput), k)

\* C15: in CareerMentor the keyword transitions are applied to the input before
\* the response is generated: in the job state an input containing "new" (any
\* case) makes career the current agent and sets context.career to None, and the
\* career agent answers; in the skill state an input containing "job" or
\* "opportunit" (any case) makes job the current agent, and the job agent
\* answers; in the skill or job state any other input leaves the current agent
\* and context.career unchanged.
C15_KeywordTransitions ==
    CareerRan =>
        /\ (cmPre.current_agent = "job" /\ Keyword("new")) =>
              /\ cm.current_agent = "career"
              /\ cm.career = None
              /\ cmReply.kind = "recommend"
        /\ (cmPre.current_agent = "skill" /\ (Keyword("job") \/ Keyword("opportunit"))) =>
              /\ cm.current_agent = "job"
              /\ cm.career = cmPre.career
              /\ cmReply.kind = "job_market"
        /\ (cmPre.current_agent = "job" /\ ~Keyword("new")) =>
              /\ cm.current_agent = "job"
              /\ cm.career = cmPre.career
        /\ (cmPre.current_agent = "skill" /\ ~Keyword("job") /\ ~Keyword("opportunit")) =>
              /\ cm.current_agent = "skill"
              /\ cm.career = cmPre.career

\* "New" typed in the job state of the Data Analyst session
C15_Witness ==
    /\ CareerRan
    /\ cmPre.current_agent = "job" /\ cmPre.career = DataAnalyst
    /\ cmInput = <<"New">>
    /\ cm.current_agent = "career" /\ cm.career = None

\* the position of an agent in the travel pipeline
Stage(agent) ==
    CASE agent = "Destination Specialist" -> 1
      [] agent = "Booking Specialist" -> 2
      [] OTHER -> 3

\* the text holds the phrase BOOKINGS COMPLETE in some letter case
SaysBookingsComplete(text) ==
    \E i \in 1..(Len(text) - 2) :
        /\ text[i] \in {"BOOKINGS", "Bookings", "bookings"}
        /\ text[i + 1] = SP
        /\ text[i + 2] \in {"COMPLETE", "Complete", "complete"}

\* C16: in the travel demo the current agent only moves forward along
\* Destination Specialist -> Booking Specialist -> Exploration Specialist, one
\* stage at a time and only on an agent's final answer, and the step from Booking
\* to Exploration is taken exactly when the Booking agent's final answer contains
\* BOOKINGS COMPLETE in any letter case.
C16_ForwardHandoffs ==
    [][ prog = "travel" =>
          /\ Stage(td'.current_agent) \in {Stage(td.current_agent), Stage(td.current_agent) + 1}
          /\ td'.current_agent # td.current_agent => pc = "final"
          /\ (pc = "final" /\ td.current_agent = "Booking Specialist") =>
                (td'.current_agent = "Exploration Specialist" <=> SaysBookingsComplete(content))
      ]_vars

\* the Exploration Specialist is current after the answer "Bookings complete"
C16_Witness ==
    /\ prog = "travel"
    /\ td.current_agent = "Exploration Specialist"
    /\ Len(td.full_plan) >= 2
    /\ td.full_plan[2].agent = "Booking Specialist"
    /\ td.full_plan[2].response = <<"Flights", SP, "booked", NL, "Bookings", SP, "complete">>

\* C17 as stated: when every completion call of a call_openai raises a
\* non-transient error, as many completion calls are made as when every call
\* raises a transient one, that is max_retries.
C17_Original ==
    (CallOpenaiRaised /\ ~IsRateLimit(err) /\ slept = <<>>) => nCompl = max_retries

\* C17: in call_openai a non-transient failure is not retried: the first
\* completion call that raises one ends the invocation, with no sleep and no
\* further call, so a client that always raises a non-transient error is called
\* exactly once (against max_retries calls for transient errors).
C17_PermanentNotRetried ==
    /\ (prog = "travel" /\ err # None /\ ~IsRateLimit(err)) => CallOpenaiRaised
    /\ (CallOpenaiRaised /\ ~IsRateLimit(err)) => nCompl = Len(slept) + 1
    /\ (CallOpenaiRaised /\ ~IsRateLimit(err) /\ slept = <<>>) => nCompl = 1

\* invalid credentials on the first call of an invocation
C17_Witness ==
    /\ CallOpenaiRaised
    /\ err = <<"401", SP, "Unauthorized">>
    /\ nCompl = 1 /\ slept = <<>>
    /\ td.current_agent = "Destination Specialist"

\* C18: the k-th failed attempt of call_openai (k from 0) that is classified
\* transient and is not the last attempt is followed by a sleep of
\* retry_delay * 2^k seconds, so the delays before a fatal failure are 30, 60,
\* 120, 240; the attempt that ends the invocation (a non-transient failure, or
\* the last attempt) is followed by no sleep.
C18_BackoffDelays ==
    prog = "travel" =>
        /\ Len(slept) <= 4
        /\ \A k \in 0..(Len(slept) - 1) : slept[k + 1] = 30 * 2^k
        /\ (pc = "call" /\ err # None) => (Len(slept) = nCompl /\ IsRateLimit(err))
        /\ CallOpenaiRaised => Len(slept) = nCompl - 1
        /\ (CallOpenaiRaised /\ nCompl = 5) => slept = <<30, 60, 120, 240>>

\* four sleeps were taken before the fifth rate-limit error ended the invocation
C18_Witness ==
    /\ CallOpenaiRaised
    /\ IsRateLimit(err)
    /\ slept = <<30, 60, 120, 240>>

\* the marker families that occur in a text
Families(s) == {m \in GameMarkers : Has(s, m)}

\* process_response was applied to lastResp in state lastPre and returned
Processed == Called /\ lastRet # Raised /\ pc # "crashed" /\ pc # "raised"

\* C19: in process_response the marker families are evaluated independently:
\* when a response holds markers of two or more families, the state effect of
\* every one of them is applied (the inventory grows for ADD_ITEM:, the location
\* is replaced for UPDATE_LOCATION:, the health changes for DAMAGE_PLAYER:, the
\* combat starts for HANDOFF_MONSTER:).
C19_FamiliesIndependent ==
    (Processed /\ Cardinality(Families(lastResp)) >= 2) =>
        /\ Has(lastResp, ADD_ITEM) =>
              Len(gm.player_inventory) > Len(lastPre.player_inventory)
        /\ Has(lastResp, UPDATE_LOCATION) =>
              gm.current_location # lastPre.current_location
        /\ (Has(lastResp, DAMAGE_PLAYER) /\ ~Has(lastResp, HEAL_PLAYER)) =>
              (gm.player_health # lastPre.player_health \/ gm.game_over)
        /\ (Has(lastResp, HANDOFF_MONSTER) /\ ~Has(lastResp, HANDOFF_NARRATOR)) =>
              (gm.combat_active /\ gm.monster # None)

\* the trimmed text between the first marker m of s and the next line break
LinePayload(s, m) == Strip(RestOfLine(s, FirstAt(s, m)))

\* the response's only marker family is m
OnlyFamily(m) == Processed /\ Families(lastResp) = {m}

\* C20: the payload process_response stores for HANDOFF_MONSTER:, HANDOFF_ITEM:,
\* UPDATE_LOCATION: or ADD_ITEM: is the trimmed text between the marker and the
\* next line break; text on later lines of the response is not part of the stored
\* monster, item, location or inventory entry.
C20_PayloadEndsAtLineBreak ==
    /\ OnlyFamily(HANDOFF_MONSTER) => gm.monster = LinePayload(lastResp, HANDOFF_MONSTER)
    /\ OnlyFamily(HANDOFF_ITEM) => gm.item_discovered = LinePayload(lastResp, HANDOFF_ITEM)
    /\ OnlyFamily(UPDATE_LOCATION) => gm.current_location = LinePayload(lastResp, UPDATE_LOCATION)
    /\ OnlyFamily(ADD_ITEM) =>
          /\ gm.player_inventory # <<>>
          /\ Last(gm.player_inventory) = LinePayload(lastResp, ADD_ITEM)

\* process_request returned a composite plan
PlanReturned ==
    /\ prog = "travel" /\ pc = "returned"
    /\ returned # None /\ returned # <<>>
    /\ returned[1] = "Your Personalized Travel Plan"

\* the positions of the fragment headers "=== agent ===" in a report
HeadersIn(text) ==
    {i \in 1..(Len(text) - 2) : text[i] = "===" /\ text[i + 2] = "==="}

\* the agents a report names, in the order of their fragments
PlanAgents(text) ==
    [k \in 1..Cardinality(HeadersIn(text)) |->
        text[(CHOOSE i \in HeadersIn(text) :
                 Cardinality({j \in HeadersIn(text) : j < i}) = k - 1) + 1]]

Pipeline == <<"Destination Specialist", "Booking Specialist", "Exploration Specialist">>

\* C21 as stated: every plan returned by process_request holds one fragment of
\* each of the three agents, in the order Destination, Booking, Exploration.
C21_Original == PlanReturned => PlanAgents(returned) = Pipeline

\* C21: every plan returned by process_request holds one fragment of each agent
\* that has answered, in pipeline order: all three once the Exploration
\* Specialist has produced its final answer, and the Destination and Booking
\* fragments only when the Booking Specialist's final answer lacks BOOKINGS
\* COMPLETE; no plan is returned at the Destination stage.
C21_PlanFragments ==
    PlanReturned =>
        LET n == Len(td.full_plan)
        IN  /\ n \in {2, 3}
            /\ PlanAgents(returned) = SubSeq(Pipeline, 1, n)
            /\ \A i \in 1..n : td.full_plan[i].agent = Pipeline[i]
            /\ td.current_agent = Pipeline[n]
            /\ td.full_plan[n].response = content
            /\ n = 2 => ~SaysBookingsComplete(content)
            /\ n = 3 => SaysBookingsComplete(td.full_plan[2].response)

\* the plan returned after the Booking Specialist answered "Paris"
C21_Witness ==
    /\ PlanReturned
    /\ td.current_agent = "Booking Specialist"
    /\ content = <<"Paris">>
    /\ PlanAgents(returned) = <<"Destination Specialist", "Booking Specialist">>

\* before is kept in after, unmodified and in order, from position first on
KeptFrom(first, before, after) ==
    /\ Len(after) >= Len(before)
    /\ \A i \in first..Len(before) : after[i] = before[i]

\* C22: in the travel demo a handoff (made right after the agent's final answer
\* is appended) changes the transcript only by replacing the message at index 0
\* with the next agent's system message and appending exactly one user message;
\* every other message is kept, unmodified and in order, and every other step of
\* the conversation only appends to the transcript.
C22_HandoffKeepsTranscript ==
    [][ (prog = "travel" /\ pc # "start") =>
          IF td'.current_agent # td.current_agent
          THEN /\ Len(messages') = Len(messages) + 2
               /\ KeptFrom(2, messages, messages')
               /\ messages'[1].role = "system"
               /\ messages'[1].content = <<"instructions", td'.current_agent>>
               /\ messages'[Len(messages) + 1].role = "assistant"
               /\ messages'[Len(messages) + 1].content = content
               /\ messages'[Len(messages) + 2].role = "user"
          ELSE KeptFrom(1, messages, messages')
      ]_vars

\* after the second handoff the transcript still holds the user's request, the
\* Booking Specialist's tool round and both final answers
C22_Witness ==
    /\ prog = "travel" /\ pc = "call"
    /\ td.current_agent = "Exploration Specialist"
    /\ messages[1].content = <<"instructions", "Exploration Specialist">>
    /\ messages[2] = UserMsg(<<"beach">>)
    /\ messages[3].role = "assistant" /\ messages[4].role = "user"
    /\ \E i \in 5..Len(messages) : messages[i].role = "tool"
    /\ Last(messages).role = "user"

\* the Destination Specialist's final answer, once recorded
DestinationAnswer == td.full_plan[1].response

\* the Destination Specialist has answered without the marker "Destination:"
AnsweredWithoutMarker ==
    /\ prog = "travel"
    /\ td.full_plan # <<>>
    /\ ~Has(DestinationAnswer, DESTINATION)

\* C23 as stated: a final answer of the Destination Specialist without the marker
\* "Destination:" has no state effect: user_preferences receives no destination
\* and the current agent stays the Destination Specialist.
C23_Original ==
    AnsweredWithoutMarker =>
        /\ td.user_preferences = None
        /\ td.current_agent = "Destination Specialist"

\* a line that looks like a place name: at most three words, no digit
LooksLikePlace(line) ==
    /\ line # <<>>
    /\ WordCount(line) <= 3
    /\ \A i \in 1..Len(line) : line[i] \notin DigitFrags

\* C23: when the Destination Specialist's final answer is a text without the
\* marker "Destination:", the destination is its first non-blank line if that
\* line has at most three words and no digit, and the whole answer otherwise;
\* user_preferences receives it and the Booking Specialist becomes current. Only
\* an absent or empty answer has no state effect, and an error is returned.
C23_FallbackDestination ==
    AnsweredWithoutMarker =>
        IF DestinationAnswer = None \/ DestinationAnswer = <<>>
        THEN /\ td.user_preferences = None
             /\ td.current_agent = "Destination Specialist"
             /\ pc = "returned"
             /\ returned = <<"Error: Could not determine destination">>
        ELSE /\ td.user_preferences =
                    IF LooksLikePlace(FirstNonBlankLine(DestinationAnswer))
                    THEN FirstNonBlankLine(DestinationAnswer)
                    ELSE DestinationAnswer
             /\ td.current_agent # "Destination Specialist"

\* the whole answer became the destination and the Booking Specialist took over
C23_Witness ==
    /\ AnsweredWithoutMarker
    /\ DestinationAnswer = <<"Visit", SP, "Paris", SP, "in", SP, "2026">>
    /\ td.user_preferences = <<"Visit", SP, "Paris", SP, "in", SP, "2026">>
    /\ td.current_agent = "Booking Specialist"

\* the player is defeated
HealthGone == prog = "game" /\ gm.player_health <= 0

\* C24: in the game session, once player_health is at or below zero after a
\* response has been processed, the game loop has ended and nothing happens any
\* more: no player input is read, no completion request is made and no marker
\* effect is applied.
C24_DefeatEndsGame ==
    /\ [](HealthGone => pc = "ended")
    /\ [][~HealthGone]_vars

\* HEAL_PLAYER: -150 took the health to -50 without setting game_over, and the
\* loop ended on the defeat check
C24_Witness ==
    /\ prog = "game" /\ pc = "ended"
    /\ lastResp = <<HEAL_PLAYER, SP, "-150">>
    /\ gm.player_health = -50
    /\ ~gm.game_over

\* the health is not negative and game_over marks exactly the health zero
HealthInv(g) == g.player_health >= 0 /\ (g.game_over <=> g.player_health = 0)

\* C25 as stated: whatever integer payloads the DAMAGE_PLAYER and HEAL_PLAYER
\* markers of the responses carry, player_health is never below zero and
\* game_over is true in exactly the states where player_health is zero.
C25_Original == prog = "game" => HealthInv(gm)

\* the text holds a negative integer literal
HasNegativePayload(text) ==
    \E i \in 1..Len(text) : text[i] \in NumTokens /\ NumValue(text[i]) < 0

\* C25: the session starts with health 100 and game_over false, and every
\* response whose DAMAGE_PLAYER or HEAL_PLAYER payload is a non-negative integer
\* (and every response without such a marker) keeps player_health at or above
\* zero with game_over true exactly when player_health is zero; so this holds
\* after any sequence of such responses.
C25_HealthNonNegative ==
    /\ (prog = "game" /\ pc = "start") => HealthInv(gm)
    /\ [][ (prog = "game" /\ HealthInv(gm)
            /\ ~(pc = "answered" /\ HasNegativePayload(finalText))) => HealthInv(gm')
       ]_vars

\* HEAL_PLAYER: 30 and then DAMAGE_PLAYER: 150: health 130, then 0 and game over
C25_Witness ==
    /\ prog = "game"
    /\ lastPre.player_health = 130
    /\ lastResp = <<"hit", SP, DAMAGE_PLAYER, SP, "150">>
    /\ gm.player_health = 0
    /\ gm.game_over

InCombat(g) == g.combat_active /\ g.monster # None

\* C26 as stated: combat_active is true and monster is non-null if and only if
\* the current agent is the Monster agent.
C26_Original == prog = "game" => (InCombat(gm) <=> gm.current_agent = "monster_agent")

\* C26: whenever the Monster agent is current, combat_active is true and monster
\* is non-null; whenever the Narrator is current, combat_active is false and
\* monster is null; combat_active and a non-null monster always go together. The
\* Item agent may be current with the combat state still set: HANDOFF_ITEM: hands
\* control over without clearing it.
C26_CombatState ==
    prog = "game" =>
        /\ gm.current_agent = "monster_agent" => InCombat(gm)
        /\ gm.current_agent = "narrator" => (~gm.combat_active /\ gm.monster = None)
        /\ gm.combat_active <=> gm.monster # None
        /\ gm.current_agent \in {"narrator", "monster_agent", "item_agent"}

\* the Monster agent answered "HANDOFF_ITEM: Ancient Key": the Item agent is
\* current and the combat with the Orc is still active
C26_Witness ==
    /\ prog = "game"
    /\ lastPre.current_agent = "monster_agent"
    /\ gm.current_agent = "item_agent"
    /\ gm.combat_active
    /\ gm.monster = <<"Orc">>

\* C27: after any sequence of run(input) calls on a CareerMentor, whenever the
\* current agent is skill or job, context.career is non-null and is one of
\* context.recommendations; and whenever awaiting_selection is true, the current
\* agent is career and context.recommendations is non-empty.
C27_CareerContext ==
    prog = "career" =>
        /\ cm.current_agent \in {"skill", "job"} =>
              /\ cm.career # None
              /\ \E i \in 1..Len(cm.recommendations) : cm.recommendations[i] = cm.career
        /\ cm.awaiting_selection =>
              /\ cm.current_agent = "career"
              /\ cm.recommendations # <<>>

\* the job agent is current for the first of the web recommendations
C27_Witness ==
    /\ prog = "career"
    /\ cm.current_agent = "job"
    /\ cm.career = WebDeveloper
    /\ cm.recommendations = <<WebDeveloper, FrontendDeveloper, BackendDeveloper>>
    /\ ~cm.awaiting_selection

\* the agent a transition leads to from agent a
AgentAfter(a) ==
    CASE a = "career" -> "skill"
      [] a = "skill" -> "job"
      [] OTHER -> "career"

\* C28: a run(input) call changes the current agent at most once: an input that
\* selects a career and also contains "job" ends in the skill state, and in the
\* skill state an input containing both "job" and "new" ends in the job state
\* with context.career kept; no call chains two transitions.
C28_OneTransitionPerRun ==
    CareerRan =>
        /\ cm.current_agent \in {cmPre.current_agent, AgentAfter(cmPre.current_agent)}
        /\ (WasAwaiting /\ Keyword("job") /\ \E i \in 1..Len(cmPre.recommendations) : Names(i)) =>
              (cm.current_agent = "skill" /\ cm.career # None)
        /\ (cmPre.current_agent = "skill" /\ Keyword("job") /\ Keyword("new")) =>
              (cm.current_agent = "job" /\ cm.career = cmPre.career)

\* "new job" typed in the skill state of the Web Developer session
C28_Witness ==
    /\ CareerRan
    /\ cmPre.current_agent = "skill" /\ cmPre.career = WebDeveloper
    /\ cmInput = <<"new", SP, "job">>
    /\ cm.current_agent = "job" /\ cm.career = WebDeveloper

\* the input of the last run describes interests the recommendation knows
DescribesInterests == \E k \in InterestKeywords : Keyword(k)

\* the input named no recommended career while a selection was awaited
NoCareerNamed == WasAwaiting /\ \A i \in 1..Len(cmPre.recommendations) : ~Names(i)

MaxRetriesExceeded == <<"Max retries exceeded for API call">>

\* C30: whenever call_openai fails, what it raises is the exception of the last
\* completion call it attempted (the error process_request reports is that
\* one's), after a retried call as well; the "Max retries exceeded for API call"
\* exception is never raised.
C30_RaisesLastError ==
    /\ [](CallOpenaiRaised =>
            /\ err \in ErrTexts
            /\ returned = ErrorString(err))
    /\ [](returned # ErrorString(MaxRetriesExceeded) /\ err # MaxRetriesExceeded)
    /\ [][(prog = "travel" /\ pc = "call" /\ pc' = "returned" /\ err' # None) =>
            /\ nCompl' = nCompl + 1
            /\ ~MayRetry(attempt, err')
            /\ returned' = ErrorString(err')]_vars

\* a rate-limit error was slept on and the next completion call raised 401,
\* which is what was raised
C30_Witness ==
    /\ CallOpenaiRaised
    /\ attempt >= 1
    /\ Len(slept) >= 1
    /\ err = <<"401", SP, "Unauthorized">>
    /\ returned = <<"Error:", "401", SP, "Unauthorized">>

====
